---------------------------- MODULE Spec2Model ----------------------------
(***************************************************************************)
(* A model of repack (mdhimes/repack): the driver repack() of              *)
(* repack/repack.py and the record source / balancer of                    *)
(* repack/utils/utilities.py.                                              *)
(*                                                                         *)
(* Wavenumbers are fixed-point numbers: one unit is 2^-FracBits cm-1, so   *)
(* that the midpoints 0.5*(wnmax+wnmin) taken by wnbalance are exact for   *)
(* FracBits halvings, as they are in IEEE doubles.  Row wavenumbers and    *)
(* the window limits are whole numbers of cm-1 (multiples of Scale).       *)
(* Row and chunk indices are 0-based as in the source; sequences are       *)
(* 1-based, hence the +1 in getwn.                                         *)
(***************************************************************************)
EXTENDS Integers, Sequences, FiniteSets, TLC

(* ------------------------------ bounds --------------------------------- *)
MaxRows == 3
    \* most rows in one line-transition file
MaxWn == 2
    \* largest row wavenumber (cm-1); the window limits range over 0..MaxWn+1
MaxChunk == 3
    \* largest chunksize
FracBits == 4
    \* binary digits kept below 1 cm-1 by the fixed-point wavenumbers
MaxStrength == 2
    \* number of strength levels a transition can take at one temperature
NTemp == 2
    \* ntemp, the number of temperatures of the continuum grid
MaxFiles == 3
    \* most input files of a run on several wavenumber sets
MaxSuffix == 3
    \* number of different file suffixes in such a run

(* -------------------------- program constants -------------------------- *)
TolInv == 100
    \* 1/tol of wnbalance(..., tol=0.01)

(* ------------------------------ helpers -------------------------------- *)
RECURSIVE Pow2(_)
Pow2(e) == IF e = 0 THEN 1 ELSE 2 * Pow2(e - 1)

Scale == Pow2(FracBits)

Abs(x) == IF x < 0 THEN -x ELSE x

RECURSIVE SumSeq(_)
SumSeq(s) == IF s = << >> THEN 0 ELSE Head(s) + SumSeq(Tail(s))

\* Sorted (non-decreasing) sequences over S of length exactly len.
RECURSIVE SortedSeqs(_, _)
SortedSeqs(S, len) ==
    IF len = 0 THEN { << >> }
    ELSE { Append(s, x) : s \in SortedSeqs(S, len - 1), x \in S } \cap
         { s \in [1..len -> S] : \A i \in 1..(len - 1) : s[i] <= s[i + 1] }

\* The contents of a line-transition file, as far as the driver looks at
\* them: the wavenumber of every row, ascending, at least one row.
Sources ==
    UNION { SortedSeqs({ v * Scale : v \in 0..MaxWn }, len) : len \in 1..MaxRows }

\* The files of MaxRows rows.
FullSources == { w \in Sources : Len(w) = MaxRows }

(* --------------------------- lbl (record source) ----------------------- *)
\* lbl.getwn: the wavenumber of row index of the file whose rows are w.
getwn(w, index) == w[index + 1]

\* lbl.nlines
nlinesOf(w) == Len(w)

\* lbl.bs with the final comparison turned round: of the two rows left it
\* returns the one farther from val.
RECURSIVE bsFarther(_, _, _, _)
bsFarther(w, val, lo, hi) ==
    IF val <= getwn(w, 0) THEN 0
    ELSE IF val >= getwn(w, nlinesOf(w) - 1) THEN nlinesOf(w) - 1
    ELSE IF hi - lo <= 1
         THEN IF Abs(val - getwn(w, hi)) > Abs(val - getwn(w, lo))
              THEN hi
              ELSE lo
    ELSE LET mid == (hi + lo) \div 2
         IN  IF getwn(w, mid) > val
             THEN bsFarther(w, val, lo, mid)
             ELSE bsFarther(w, val, mid, hi)

\* lbl.bs with "<=" in the final comparison: of two rows equally far from
\* val it returns the higher.
RECURSIVE bsTieHigh(_, _, _, _)
bsTieHigh(w, val, lo, hi) ==
    IF val <= getwn(w, 0) THEN 0
    ELSE IF val >= getwn(w, nlinesOf(w) - 1) THEN nlinesOf(w) - 1
    ELSE IF hi - lo <= 1
         THEN IF Abs(val - getwn(w, hi)) <= Abs(val - getwn(w, lo))
              THEN hi
              ELSE lo
    ELSE LET mid == (hi + lo) \div 2
         IN  IF getwn(w, mid) > val
             THEN bsTieHigh(w, val, lo, mid)
             ELSE bsTieHigh(w, val, mid, hi)

\* lbl.bs: binary search of val between row indices lo and hi.
RECURSIVE bs(_, _, _, _)
bs(w, val, lo, hi) ==
    IF val <= getwn(w, 0) THEN 0
    ELSE IF val >= getwn(w, nlinesOf(w) - 1) THEN nlinesOf(w) - 1
    ELSE IF hi - lo <= 1
         THEN IF Abs(val - getwn(w, hi)) < Abs(val - getwn(w, lo))
              THEN hi
              ELSE lo
    ELSE LET mid == (hi + lo) \div 2
         IN  IF getwn(w, mid) > val
             THEN bs(w, val, lo, mid)
             ELSE bs(w, val, mid, hi)

\* count: the sum over the sources of the index bs finds for wntarget.
RECURSIVE count(_, _)
count(lbls, wntarget) ==
    IF lbls = << >> THEN 0
    ELSE bs(Head(lbls), wntarget, 0, nlinesOf(Head(lbls)) - 1)
         + count(Tail(lbls), wntarget)

\* wnbalance with targetsize = total/nchunks (kept as a fraction so that the
\* comparisons are exact).  The result is
\*   st = "ok"      : wntarget was accepted after `depth` halvings;
\*   st = "diverge" : the call recurses on the same arguments for ever;
\*   st = "deep"    : the next midpoint lies below the fixed-point resolution.
RECURSIVE wnbalance(_, _, _, _, _, _, _)
wnbalance(lbls, lo, hi, total, nch, zero, depth) ==
    IF (lo + hi) % 2 # 0 THEN [st |-> "deep", wn |-> lo, depth |-> depth]
    ELSE
    LET wntarget == (hi + lo) \div 2
        ntarget  == count(lbls, wntarget)
    IN  IF TolInv * Abs(nch * (ntarget - zero) - total) < total
        THEN [st |-> "ok", wn |-> wntarget, depth |-> depth + 1]
        ELSE IF lo = hi
        THEN [st |-> "diverge", wn |-> wntarget, depth |-> depth + 1]
        ELSE IF nch * (ntarget - zero) < total
        THEN wnbalance(lbls, wntarget, hi, total, nch, zero, depth + 1)
        ELSE wnbalance(lbls, lo, wntarget, total, nch, zero, depth + 1)


(* ------------------------- repack(): the plan -------------------------- *)
\* "Find initial value in range": the leftward widening of i0.
RECURSIVE widenLeft(_, _, _)
widenLeft(w, i0, lowwn) ==
    IF i0 > 0 /\ getwn(w, i0 - 1) >= lowwn
    THEN widenLeft(w, i0 - 1, lowwn)
    ELSE i0

\* "Find final value in range": the rightward widening of iN (the source
\* compares with wnmin here).
RECURSIVE widenRight(_, _, _)
widenRight(w, iN, lowwn) ==
    IF iN < nlinesOf(w) - 1 /\ getwn(w, iN + 1) <= lowwn
    THEN widenRight(w, iN + 1, lowwn)
    ELSE iN

\* i0 and iN of one source for the window [lowwn, highwn].
firstRow(w, lowwn) == widenLeft(w, bs(w, lowwn, 0, nlinesOf(w) - 1), lowwn)

lastRow(w, lowwn, highwn) ==
    widenRight(w, bs(w, highwn, firstRow(w, lowwn), nlinesOf(w) - 1), lowwn)

\* The boundaries laid out with a whole-number step, so that the last one
\* need not be cK.
linspaceStep(c0, cK, nch) == [m \in 0..nch |-> c0 + m * ((cK - c0) \div nch)]

\* np.linspace(c0, cK, nch+1) stored into an integer array (truncation).
linspace(c0, cK, nch) == [m \in 0..nch |-> c0 + (m * (cK - c0)) \div nch]

\* Sum over the sources of column m of the chunk matrix.
RECURSIVE colSum(_, _, _)
colSum(ch, m, k) ==
    IF k = 0 THEN 0 ELSE ch[k][m] + colSum(ch, m, k - 1)

\* The loop "for n in np.arange(1, nchunks)" of the complicated case, from
\* boundary m on.  ch is the chunk matrix so far, wnch the boundaries found
\* so far (wnch[1] = wnmin), dep the halvings each call of wnbalance took.
RECURSIVE boundaries(_, _, _, _, _, _, _, _)
boundaries(lbls, highwn, total, nch, m, ch, wnch, dep) ==
    IF m >= nch THEN [st |-> "ok", chunk |-> ch, wnchunk |-> wnch, depth |-> dep]
    ELSE
    LET zero == colSum(ch, m - 1, Len(lbls))
        r    == wnbalance(lbls, wnch[m], highwn, total, nch, zero, 0)
    IN  IF r.st # "ok"
        THEN [st |-> r.st, chunk |-> ch, wnchunk |-> wnch,
              depth |-> Append(dep, r.depth)]
        ELSE boundaries(lbls, highwn, total, nch, m + 1,
                 [k \in 1..Len(lbls) |->
                    [ch[k] EXCEPT ![m] = bs(lbls[k], r.wn, ch[k][m - 1], ch[k][nch])]],
                 Append(wnch, r.wn), Append(dep, r.depth))

\* nchunks = int(np.sum(nlines)/chunksize) + 1
nchunksOf(nl, csize) == SumSeq(nl) \div csize + 1

\* The chunk matrix of one group: chunk[k][m], k = 1..number of sources,
\* m = 0..nchunks.
chunkPlan(lbls, ist, nl, lowwn, highwn, csize) ==
    LET total == SumSeq(nl)
        nch   == nchunksOf(nl, csize)
        first == [k \in 1..Len(lbls) |->
                    [m \in 0..nch |-> IF m = 0 THEN ist[k]
                                      ELSE IF m = nch THEN ist[k] + nl[k]
                                      ELSE 0]]
    IN  IF Len(lbls) = 1
        THEN [st |-> "ok",
              chunk |-> [k \in 1..1 |-> linspace(first[1][0], first[1][nch], nch)],
              wnchunk |-> << >>, depth |-> << >>]
        ELSE boundaries(lbls, highwn, total, nch, 1, first, <<lowwn>>, << >>)

(* ------------------------ repack(): file grouping ---------------------- *)
\* The first element of the sequence, whatever its rank (s[0]).
firstOf(s) == s[1]

\* The smallest element of a non-empty sequence (s[np.argmin(s)]).
RECURSIVE minOf(_)
minOf(s) ==
    IF Len(s) = 1 THEN s[1]
    ELSE LET m == minOf(Tail(s)) IN IF Head(s) <= m THEN Head(s) ELSE m

\* list.remove(x): drop the first occurrence of x.
RECURSIVE remove(_, _)
remove(s, x) ==
    IF s = << >> THEN << >>
    ELSE IF Head(s) = x THEN Tail(s) ELSE <<Head(s)>> \o remove(Tail(s), x)

\* The inner loop over the files: collect the indices with this suffix and
\* remove the suffix from s once per match.
RECURSIVE collect(_, _, _, _, _)
collect(suff, suffix, k, idx, s) ==
    IF k > Len(suff) THEN [idx |-> idx, s |-> s]
    ELSE IF suff[k] = suffix
         THEN collect(suff, suffix, k + 1, Append(idx, k), remove(s, suffix))
         ELSE collect(suff, suffix, k + 1, idx, s)

\* The loop "while np.size(s) != 0".
RECURSIVE grouping(_, _, _)
grouping(suff, s, groups) ==
    IF s = << >> THEN groups
    ELSE LET c == collect(suff, minOf(s), 1, << >>, s)
         IN  grouping(suff, c.s, Append(groups, c.idx))

(* ---------------------- repack(): one chunk ---------------------------- *)
\* lbl.read of the rows chunk[0] .. chunk[1]-1 of file number idx: the
\* transitions, each with its wavenumber and its identity (file, row).
read(w, idx, c0, c1) ==
    [j \in 1..(c1 - c0) |-> [wn |-> getwn(w, c0 + j - 1), file |-> idx, row |-> c0 + j - 1]]

\* The np.hstack over the sources of the group, in source order.
RECURSIVE hstack(_, _, _, _, _)
hstack(lbls, idxs, ch, m, k) ==
    IF k > Len(lbls) THEN << >>
    ELSE read(lbls[k], idxs[k], ch[k][m], ch[k][m + 1])
         \o hstack(lbls, idxs, ch, m, k + 1)

\* "Sort by wavelength": np.argsort(wn), ties left in their order.
RECURSIVE insertSorted(_, _)
insertSorted(s, x) ==
    IF s = << >> THEN <<x>>
    ELSE IF x.wn < Head(s).wn THEN <<x>> \o s
    ELSE <<Head(s)>> \o insertSorted(Tail(s), x)

RECURSIVE sortByWn(_)
sortByWn(s) ==
    IF s = << >> THEN << >>
    ELSE insertSorted(sortByWn(SubSeq(s, 1, Len(s) - 1)), s[Len(s)])

\* Two transitions lie within the larger of their Doppler widths.  alphad is
\* wn times a factor far below 1, so that rows a whole number of cm-1 apart
\* are neighbours only when their wavenumbers are equal and alphad >= 0.
near(wi, wj) == wi = wj /\ wi >= 0

\* u.flag: the dominance rule.  D[j] is the strength level of transition j,
\* one level being a factor 1/sthresh.  The transitions are walked in
\* descending strength; j is weak when a transition walked before it, near
\* it, is at least 1/sthresh times stronger.
flagOf(rows, D) ==
    [j \in 1..Len(rows) |->
       ~ \E i \in 1..Len(rows) :
            /\ i # j
            /\ D[i] >= D[j]
            /\ near(rows[i].wn, rows[j].wn)
            /\ D[i] >= D[j] + 1]

\* The flags the strengths of the rows can produce at one temperature, when
\* the strengths take the levels 1..levels.
flagOutcomes(rows, levels) ==
    { flagOf(rows, D) : D \in [1..Len(rows) -> 1..levels] }

\* The marks combined with "and" instead of "or".
flagAnd(flag, flag2) == [j \in 1..Len(flag) |-> flag[j] /\ flag2[j]]

\* flag |= flag2
flagOr(flag, flag2) == [j \in 1..Len(flag) |-> flag[j] \/ flag2[j]]

\* The subsequence of rows whose mark equals keep.
RECURSIVE selectRows(_, _, _)
selectRows(rows, flag, keep) ==
    IF rows = << >> THEN << >>
    ELSE (IF Head(flag) = keep THEN <<Head(rows)>> ELSE << >>)
         \o selectRows(Tail(rows), Tail(flag), keep)

\* The loop over the temperatures: s[~flag], wn[~flag] go to u.continuum
\* once for every t.
RECURSIVE contPasses(_, _)
contPasses(weak, t) ==
    IF t >= NTemp THEN << >>
    ELSE [j \in 1..Len(weak) |-> [t |-> t, wn |-> weak[j].wn,
                                  file |-> weak[j].file, row |-> weak[j].row]]
         \o contPasses(weak, t + 1)

(* ------------------------------- state --------------------------------- *)
VARIABLES
    dbtype,     \* argument dbtype
    files,      \* argument files: what parse_file finds in each name
    wnmin,      \* argument wnmin (fixed-point)
    wnmax,      \* argument wnmax (fixed-point)
    chunksize,  \* argument chunksize
    strengths,  \* how many strength levels the lines of the files take
    pc,         \* where repack() is
    exitcode,   \* the exit status of the process, -1 while it runs
    wnset,      \* file indices of each wavenumber set
    grp,        \* the loop index i over wnset (1-based)
    lbl,        \* the lbl objects of the group: the rows of each file
    istart,     \* istart of the group
    nlines,     \* nlines of the group
    nchunks,    \* nchunks of the group
    chunk,      \* the chunk matrix of the group
    wnchunk,    \* the boundary wavenumbers wnbalance returned
    depth,      \* the number of halvings each wnbalance call took
    n,          \* the loop index n over the chunks (0-based)
    lblf,       \* the records written to the LBL file, in order
    lblfstate,  \* "unopened", "open" or "closed"
    continuum,  \* the (t, transition) pairs handed to u.continuum, in order
    chunklog,   \* what each processed chunk read and how it was flagged
    probe,      \* a single call of lbl.bs and what it returned (SpecBs)
    family,     \* which line lists the input files may hold (see Catalog)
    events      \* the file operations of the run so far, in order

vars == <<dbtype, files, wnmin, wnmax, chunksize, strengths, pc, exitcode, wnset, grp,
          lbl, istart, nlines, nchunks, chunk, wnchunk, depth, n, lblf,
          lblfstate, continuum, chunklog, probe, family, events>>

inputs == <<dbtype, files, wnmin, wnmax, chunksize, strengths, probe, family>>
group  == <<lbl, istart, nlines>>
plan   == <<nchunks, chunk, wnchunk, depth, n>>
output == <<lblf, continuum, chunklog>>

(* ------------------------------- inputs -------------------------------- *)
DbTypes == {"exomol", "other"}

File(s, m) == [suff |-> s, mol |-> m]

\* Lists of input files: one file; two files of one wavenumber set; files of
\* two molecules.
FileLists ==
    { <<File(1, "H2O")>>,
      <<File(1, "H2O"), File(1, "H2O")>>,
      <<File(1, "H2O"), File(1, "CO")>> }

\* Three files of one wavenumber set.
WideLists ==
    { <<File(1, "H2O"), File(1, "H2O"), File(1, "H2O")>> }

WindowWn == { v * Scale : v \in 0..(MaxWn + 1) }

\* The state when repack() is entered, but for files, wnmin and chunksize.
InitRun ==
    /\ dbtype \in DbTypes
    /\ wnmax \in WindowWn
    /\ wnmin <= wnmax
    /\ probe = << >>
    /\ pc = "start"
    /\ exitcode = -1
    /\ wnset = << >>
    /\ grp = 0
    /\ lbl = << >>
    /\ istart = << >>
    /\ nlines = << >>
    /\ nchunks = 0
    /\ chunk = << >>
    /\ wnchunk = << >>
    /\ depth = << >>
    /\ n = 0
    /\ lblf = << >>
    /\ lblfstate = "unopened"
    /\ continuum = << >>
    /\ chunklog = << >>
    /\ events = << >>

\* Runs on one or two files take every window and chunksize; runs on three
\* files take the windows that start at 0 and the largest chunksize, and
\* their files have MaxRows rows (see StartGroup).  The lines of a file are
\* all of one strength, so that every line is flagged strong.
Init ==
    /\ \/ /\ files \in FileLists
          /\ wnmin \in WindowWn
          /\ chunksize \in 1..MaxChunk
          /\ family = "any"
       \/ /\ files \in WideLists
          /\ wnmin = 0
          /\ chunksize = MaxChunk
          /\ family = "full"
    /\ strengths = 1
    /\ InitRun

\* Runs on one or two files over the whole wavenumber range, whose lines take
\* every strength level.
InitFlag ==
    /\ files \in FileLists
    /\ wnmin = 0
    /\ wnmax = (MaxWn + 1) * Scale
    /\ chunksize \in 1..MaxChunk
    /\ strengths = MaxStrength
    /\ family = "any"
    /\ InitRun

(* ------------------------------- actions ------------------------------- *)
\* The line lists a file may hold: any sorted list of up to MaxRows rows;
\* those of MaxRows rows; those of two rows of different wavenumbers.
Catalog(fam) ==
    CASE fam = "full" -> FullSources
      [] fam = "pair" -> { w \in Sources : Len(w) = 2 /\ w[1] < w[2] }
      [] OTHER        -> Sources

\* One file operation: op on input file number file (0 for the output
\* files), made for wavenumber set grp and chunk n.
Event(op, file, g, m) == [op |-> op, file |-> file, grp |-> g, n |-> m]

\* The same operation on every file of the wavenumber set, in order.
fileEvents(op, idxs, g, m) == [k \in 1..Len(idxs) |-> Event(op, idxs[k], g, m)]

\* For every file of the set from the k-th on: u.lbl(...) opens it, then bs
\* and getwn seek in it to find i0 and iN.
RECURSIVE openEvents(_, _, _)
openEvents(idxs, g, k) ==
    IF k > Len(idxs) THEN << >>
    ELSE <<Event("open", idxs[k], g, 0), Event("seek", idxs[k], g, 0)>>
         \o openEvents(idxs, g, k + 1)

\* The balancer and the intermediate boundaries seek in every file of the
\* set, when the set has several files and several chunks.
planEvents(idxs, g, nch) ==
    IF Len(idxs) > 1 /\ nch > 1 THEN fileEvents("seek", idxs, g, 0) ELSE << >>

\* lbl[k].close() for the first file of the set only.
closeFirst(idxs, g) == <<Event("close", idxs[1], g, 0)>>

\* for k in np.arange(len(wnset[i])): lbl[k].close()
closeEvents(idxs, g) == fileEvents("close", idxs, g, 0)

suffOf(fs) == [k \in 1..Len(fs) |-> fs[k].suff]
molsOf(fs) == { fs[k].mol : k \in 1..Len(fs) }

\* if dbtype not in ["hitran", "exomol"]: ... sys.exit(0)
CheckDbtype ==
    /\ pc = "start"
    /\ IF dbtype \notin {"hitran", "exomol"}
       THEN pc' = "exit" /\ exitcode' = 0
       ELSE pc' = "parse" /\ exitcode' = exitcode
    /\ UNCHANGED <<inputs, wnset, grp, group, plan, output, lblfstate, events>>

\* Parse input files; if len(np.unique(mol)) > 1: ... sys.exit(0)
ParseFiles ==
    /\ pc = "parse"
    /\ IF Cardinality(molsOf(files)) > 1
       THEN pc' = "exit" /\ exitcode' = 0
       ELSE pc' = "group" /\ exitcode' = exitcode
    /\ UNCHANGED <<inputs, wnset, grp, group, plan, output, lblfstate, events>>

\* File indices for each wavenumber set.
GroupFiles ==
    /\ pc = "group"
    /\ wnset' = grouping(suffOf(files), suffOf(files), << >>)
    /\ pc' = "openout"
    /\ UNCHANGED <<inputs, exitcode, grp, group, plan, output, lblfstate,
                   events>>

\* lblf = open(lbl_out, "wb")
OpenOutput ==
    /\ pc = "openout"
    /\ lblfstate' = "open"
    /\ events' = Append(events, Event("lblopen", 0, 0, 0))
    /\ grp' = 1
    /\ pc' = IF Len(wnset) >= 1 THEN "opengroup" ELSE "finish"
    /\ UNCHANGED <<inputs, exitcode, wnset, group, plan, output>>

\* Gather data from all files in this wavenumber range: open each file and
\* find its first and last row in the window.  Then count lines, set the
\* target chunk size and fill the chunk matrix.  A wnbalance that never
\* returns ends the run with a RecursionError.
StartGroup ==
    /\ pc = "opengroup"
    /\ \E contents \in [1..Len(wnset[grp]) -> Catalog(family)] :
          \E ist \in {[k \in 1..Len(contents) |-> firstRow(contents[k], wnmin)]} :
          \E nl \in {[k \in 1..Len(contents) |->
                        lastRow(contents[k], wnmin, wnmax) - ist[k]]} :
          \E p \in {chunkPlan(contents, ist, nl, wnmin, wnmax, chunksize)} :
              /\ lbl' = contents
              /\ istart' = ist
              /\ nlines' = nl
              /\ nchunks' = nchunksOf(nl, chunksize)
              /\ chunk' = p.chunk
              /\ wnchunk' = p.wnchunk
              /\ depth' = p.depth
              /\ pc' = CASE p.st = "ok"      -> "chunk"
                         [] p.st = "diverge" -> "crash"
                         [] OTHER            -> "recursing"
              /\ exitcode' = IF p.st = "diverge" THEN 1 ELSE exitcode
    /\ n' = 0
    /\ events' = events \o openEvents(wnset[grp], grp, 1)
                        \o planEvents(wnset[grp], grp, nchunks')
    /\ UNCHANGED <<inputs, wnset, grp, output, lblfstate>>

\* Process one chunk: read, sort, flag at tmin and tmax, store the weak
\* lines to the continuum and the strong lines to the LBL file.
ProcessChunk ==
    /\ pc = "chunk"
    /\ n < nchunks
    /\ IF \E k \in 1..Len(lbl) : chunk[k][n + 1] < chunk[k][n]
       THEN \* np.zeros(nlines) with a negative count raises ValueError
            /\ pc' = "crash"
            /\ exitcode' = 1
            /\ UNCHANGED <<n, output, events>>
       ELSE \E rows \in {sortByWn(hstack(lbl, wnset[grp], chunk, n, 1))} :
                \E flag \in flagOutcomes(rows, strengths),
                   flag2 \in flagOutcomes(rows, strengths) :
                  LET final == flagOr(flag, flag2)
                  IN  /\ continuum' = continuum
                                      \o contPasses(selectRows(rows, final, FALSE), 0)
                      /\ lblf' = lblf \o selectRows(rows, final, TRUE)
                      /\ events' = events
                            \o fileEvents("read", wnset[grp], grp, n)
                            \o (IF selectRows(rows, final, TRUE) # << >>
                                THEN <<Event("write", 0, grp, n)>>
                                ELSE << >>)
                      /\ chunklog' = Append(chunklog,
                            [grp |-> grp, n |-> n, rows |-> rows,
                             flag |-> flag, flag2 |-> flag2])
                      /\ n' = n + 1
                      /\ pc' = IF n + 1 < nchunks THEN "chunk" ELSE "closegroup"
                      /\ exitcode' = exitcode
    /\ UNCHANGED <<inputs, wnset, grp, group, nchunks, chunk, wnchunk, depth,
                   lblfstate>>

\* for k ...: lbl[k].close(), then the next wavenumber set
CloseGroup ==
    /\ pc = "closegroup"
    /\ lbl' = << >>
    /\ events' = events \o closeEvents(wnset[grp], grp)
    /\ grp' = grp + 1
    /\ pc' = IF grp + 1 <= Len(wnset) THEN "opengroup" ELSE "finish"
    /\ UNCHANGED <<inputs, exitcode, wnset, istart, nlines, plan, output,
                   lblfstate>>

\* Close LBL file, save the continuum file, return.
Finish ==
    /\ pc = "finish"
    /\ lblfstate' = "closed"
    /\ events' = events \o <<Event("lblclose", 0, 0, 0),
                              Event("contwrite", 0, 0, 0)>>
    /\ pc' = "done"
    /\ exitcode' = 0
    /\ UNCHANGED <<inputs, wnset, grp, group, plan, output>>

Next ==
    \/ CheckDbtype
    \/ ParseFiles
    \/ GroupFiles
    \/ OpenOutput
    \/ StartGroup
    \/ ProcessChunk
    \/ CloseGroup
    \/ Finish

Spec == Init /\ [][Next]_vars

SpecFlag == InitFlag /\ [][Next]_vars

(* -------------------- runs on several wavenumber sets ------------------- *)
\* Every list of one to MaxFiles files of one molecule, each with one of the
\* suffixes 1..MaxSuffix, in any order.
GroupLists ==
    UNION { [1..len -> { File(sf, "H2O") : sf \in 1..MaxSuffix }] : len \in 1..MaxFiles }

\* Runs on these lists over the whole wavenumber range with the largest
\* chunksize; every file holds two rows of different wavenumbers.
InitGroup ==
    /\ files \in GroupLists
    /\ wnmin = 0
    /\ wnmax = (MaxWn + 1) * Scale
    /\ chunksize = MaxChunk
    /\ strengths = 1
    /\ family = "pair"
    /\ InitRun

SpecGroup == InitGroup /\ [][Next]_vars

(* ---------------------- lbl.bs called on its own ------------------------ *)
\* Every fixed-point wavenumber from 0 to MaxWn+1 cm-1.
ProbeWn == 0..((MaxWn + 1) * Scale)

\* One open file, nothing else under way.
InitBs ==
    /\ dbtype = "exomol"
    /\ files = <<File(1, "H2O")>>
    /\ wnmin = 0
    /\ wnmax = 0
    /\ chunksize = 1
    /\ strengths = 1
    /\ pc = "bs"
    /\ exitcode = -1
    /\ wnset = <<<<1>>>>
    /\ grp = 1
    /\ lbl \in [1..1 -> Sources]
    /\ istart = << >>
    /\ nlines = << >>
    /\ nchunks = 0
    /\ chunk = << >>
    /\ wnchunk = << >>
    /\ depth = << >>
    /\ n = 0
    /\ lblf = << >>
    /\ lblfstate = "unopened"
    /\ continuum = << >>
    /\ chunklog = << >>
    /\ probe = << >>
    /\ family = "any"
    /\ events = << >>

\* lbl[0].bs(val, lo, hi) for some wavenumber and some row indices lo <= hi.
CallBs ==
    /\ pc = "bs"
    /\ probe = << >>
    /\ \E val \in ProbeWn, lo \in 0..(nlinesOf(lbl[1]) - 1), hi \in 0..(nlinesOf(lbl[1]) - 1) :
          /\ lo <= hi
          /\ probe' = [val |-> val, lo |-> lo, hi |-> hi,
                       ret |-> bs(lbl[1], val, lo, hi)]
    /\ UNCHANGED <<dbtype, files, wnmin, wnmax, chunksize, strengths, pc,
                   exitcode, wnset, grp, group, plan, output, lblfstate,
                   family, events>>

NextBs == CallBs

SpecBs == InitBs /\ [][NextBs]_vars

(* ------------------------------ properties ----------------------------- *)
\* The chunk matrix of the group is complete (every wnbalance returned).
PlanReady == pc \in {"chunk", "closegroup"}

\* Number of transitions chunk m holds, summed over the sources.
chunkSize(m) == colSum(chunk, m + 1, Len(lbl)) - colSum(chunk, m, Len(lbl))

\* How often the transition (file, row) is in the LBL file.
lblCount(r) ==
    Cardinality({ i \in 1..Len(lblf) : lblf[i].file = r.file /\ lblf[i].row = r.row })

\* How often the transition (file, row) went to u.continuum for temperature t.
contCount(r, t) ==
    Cardinality({ i \in 1..Len(continuum) :
                    /\ continuum[i].file = r.file
                    /\ continuum[i].row = r.row
                    /\ continuum[i].t = t })

\* How often the transition (file, row) went to u.continuum at all.
contTotal(r) ==
    Cardinality({ i \in 1..Len(continuum) :
                    continuum[i].file = r.file /\ continuum[i].row = r.row })

\* C1: every transition a processed chunk read is in exactly one sink: once
\* in the LBL file and never in the continuum when it is flagged strong at
\* tmin or at tmax, else never in the LBL file and once per grid temperature
\* in the continuum.
C1_ExactlyOneSink ==
    \A c \in 1..Len(chunklog) :
       \A j \in 1..Len(chunklog[c].rows) :
          LET r      == chunklog[c].rows[j]
              strong == chunklog[c].flag[j] \/ chunklog[c].flag2[j]
          IN  IF strong
              THEN lblCount(r) = 1 /\ contTotal(r) = 0
              ELSE /\ lblCount(r) = 0
                   /\ contTotal(r) = NTemp
                   /\ \A t \in 0..(NTemp - 1) : contCount(r, t) = 1

\* The chunks processed hold a line weak at both temperatures, a line strong
\* at tmin only and a line strong at tmax only.
C1_Witness ==
    /\ \E c \in 1..Len(chunklog) : \E j \in 1..Len(chunklog[c].rows) :
          ~chunklog[c].flag[j] /\ ~chunklog[c].flag2[j]
    /\ \E c \in 1..Len(chunklog) : \E j \in 1..Len(chunklog[c].rows) :
          chunklog[c].flag[j] /\ ~chunklog[c].flag2[j]
    /\ \E c \in 1..Len(chunklog) : \E j \in 1..Len(chunklog[c].rows) :
          ~chunklog[c].flag[j] /\ chunklog[c].flag2[j]

\* C2: the LBL file is sorted by ascending wavenumber: every record has a
\* wavenumber >= that of every record written before it.
C2_LblSorted ==
    \A i \in 1..Len(lblf) : \A j \in 1..Len(lblf) :
       i < j => lblf[i].wn <= lblf[j].wn

\* C3: every record of the LBL file lies in the window [wnmin, wnmax].
C3_LblInWindow ==
    \A i \in 1..Len(lblf) : wnmin <= lblf[i].wn /\ lblf[i].wn <= wnmax

\* The transition (file idx, row) was read by some chunk of the group.
wasRead(idx, row) ==
    \E c \in 1..Len(chunklog) :
       /\ chunklog[c].grp = grp
       /\ \E j \in 1..Len(chunklog[c].rows) :
             chunklog[c].rows[j].file = idx /\ chunklog[c].rows[j].row = row

\* C4: when the chunks of a group are done, every row of every source whose
\* wavenumber lies in [wnmin, wnmax] has been read by some chunk.
C4_WindowCovered ==
    pc = "closegroup" =>
       \A k \in 1..Len(lbl) : \A row \in 0..(nlinesOf(lbl[k]) - 1) :
          (wnmin <= getwn(lbl[k], row) /\ getwn(lbl[k], row) <= wnmax)
             => wasRead(wnset[grp][k], row)

\* C5: a run that aborts on a fatal error (invalid dbtype, several
\* molecules) ends with a non-zero exit status, and exit status 0 comes from
\* a successful run only.
C5_FatalExitNonZero ==
    /\ pc = "exit" => exitcode # 0
    /\ exitcode = 0 => pc = "done"

\* C6: no chunk holds more than chunksize transitions, summed over the
\* sources of the group.
C6_ChunkAtMostChunksize ==
    PlanReady => \A m \in 0..(nchunks - 1) : chunkSize(m) <= chunksize

\* C7: in a group of two or more sources cut into two or more chunks, every
\* chunk holds a number of transitions within tol*target of
\* target = N_total/nchunks.
C7_ChunksBalanced ==
    (PlanReady /\ Len(lbl) >= 2 /\ nchunks >= 2) =>
       \A m \in 0..(nchunks - 1) :
          TolInv * Abs(nchunks * chunkSize(m) - SumSeq(nlines)) <= SumSeq(nlines)

\* The probe is bs(wavenumber(i), 0, n-1) for some row i of the source.
probesARow ==
    /\ probe # << >>
    /\ probe.lo = 0
    /\ probe.hi = nlinesOf(lbl[1]) - 1
    /\ \E i \in 0..(nlinesOf(lbl[1]) - 1) : probe.val = getwn(lbl[1], i)

\* C8 as stated: bs(wavenumber(i), 0, n-1) returns i for every row i of a
\* source sorted by non-decreasing wavenumber.
C8_BsReturnsRow ==
    probesARow =>
       \A i \in 0..(nlinesOf(lbl[1]) - 1) :
          probe.val = getwn(lbl[1], i) => probe.ret = i

\* C8 as amended: bs(wavenumber(i), 0, n-1) returns a row whose wavenumber is
\* wavenumber(i); it returns i when no other row has that wavenumber.
C8_BsReturnsRowOfThatWn ==
    probesARow =>
       /\ getwn(lbl[1], probe.ret) = probe.val
       /\ \A i \in 0..(nlinesOf(lbl[1]) - 1) :
             ( /\ probe.val = getwn(lbl[1], i)
               /\ \A j \in 0..(nlinesOf(lbl[1]) - 1) :
                     j # i => getwn(lbl[1], j) # probe.val )
             => probe.ret = i

\* bs was asked for the wavenumber of an inner row of a source of three or
\* more rows, all different, and returned that row.
C8_Witness ==
    /\ probesARow
    /\ nlinesOf(lbl[1]) >= 3
    /\ \A i \in 0..(nlinesOf(lbl[1]) - 2) : getwn(lbl[1], i) < getwn(lbl[1], i + 1)
    /\ probe.ret > 0
    /\ probe.ret < nlinesOf(lbl[1]) - 1
    /\ getwn(lbl[1], probe.ret) = probe.val

\* C9: a transition whose wavenumber is <= 0 is skipped: it is neither
\* written to the LBL file nor handed to the continuum.
C9_NonPositiveSkipped ==
    /\ \A i \in 1..Len(lblf) : lblf[i].wn > 0
    /\ \A i \in 1..Len(continuum) : continuum[i].wn > 0

\* C10: in a complete chunk matrix, for every source k, chunk[k][0] is
\* istart[k], chunk[k][nchunks] is istart[k] + nlines[k], and
\* chunk[k][m] <= chunk[k][m+1] for every m, so no read has a negative length.
C10_PlanMonotone ==
    PlanReady =>
       \A k \in 1..Len(lbl) :
          /\ chunk[k][0] = istart[k]
          /\ chunk[k][nchunks] = istart[k] + nlines[k]
          /\ \A m \in 0..(nchunks - 1) : chunk[k][m] <= chunk[k][m + 1]

\* A group of several sources was cut into three or more chunks, and the
\* two boundaries the balancer set first for some source lie above its
\* first row and differ from each other.
C10_Witness ==
    /\ PlanReady
    /\ Len(lbl) >= 2
    /\ nchunks >= 3
    /\ \E k \in 1..Len(lbl) :
          /\ chunk[k][0] < chunk[k][1]
          /\ chunk[k][1] < chunk[k][2]

\* The probe is bs(v, 0, n-1) over the whole source.
probesWhole ==
    /\ probe # << >>
    /\ probe.lo = 0
    /\ probe.hi = nlinesOf(lbl[1]) - 1

\* Row i is as close to the probed value as any row of the source.
closest(i) ==
    /\ i \in 0..(nlinesOf(lbl[1]) - 1)
    /\ \A j \in 0..(nlinesOf(lbl[1]) - 1) :
          Abs(getwn(lbl[1], i) - probe.val) <= Abs(getwn(lbl[1], j) - probe.val)

\* C11 as stated: bs(v, 0, n-1) returns a row closest to v; it returns 0 when
\* v <= wavenumber(0) and n-1 when v >= wavenumber(n-1); and when two
\* adjacent rows are equally close to v it returns the lower of them.
C11_BsClosestRow ==
    probesWhole =>
       /\ closest(probe.ret)
       /\ probe.val <= getwn(lbl[1], 0) => probe.ret = 0
       /\ probe.val >= getwn(lbl[1], nlinesOf(lbl[1]) - 1)
             => probe.ret = nlinesOf(lbl[1]) - 1
       /\ \A i \in 0..(nlinesOf(lbl[1]) - 2) :
             ( /\ closest(i)
               /\ closest(i + 1) )
             => probe.ret = i

\* C11 as amended: bs(v, 0, n-1) returns a row closest to v; it returns 0 when
\* v <= wavenumber(0), and n-1 when v >= wavenumber(n-1) and v > wavenumber(0);
\* and when v lies strictly between two adjacent rows, equally far from
\* both, it returns the lower of them.
C11_BsClosestRowStrict ==
    probesWhole =>
       /\ closest(probe.ret)
       /\ probe.val <= getwn(lbl[1], 0) => probe.ret = 0
       /\ ( /\ probe.val >= getwn(lbl[1], nlinesOf(lbl[1]) - 1)
            /\ probe.val > getwn(lbl[1], 0) )
             => probe.ret = nlinesOf(lbl[1]) - 1
       /\ \A i \in 0..(nlinesOf(lbl[1]) - 2) :
             ( /\ getwn(lbl[1], i) < probe.val
               /\ probe.val < getwn(lbl[1], i + 1)
               /\ probe.val - getwn(lbl[1], i) = getwn(lbl[1], i + 1) - probe.val )
             => probe.ret = i

\* bs was asked for a value half way between the last two rows of a source
\* of three or more rows and returned the lower of the two.
C11_Witness ==
    /\ probesWhole
    /\ nlinesOf(lbl[1]) >= 3
    /\ probe.ret = nlinesOf(lbl[1]) - 2
    /\ getwn(lbl[1], probe.ret) < probe.val
    /\ probe.val < getwn(lbl[1], probe.ret + 1)
    /\ probe.val - getwn(lbl[1], probe.ret) = getwn(lbl[1], probe.ret + 1) - probe.val

\* C12: every call of wnbalance the plan makes returns a boundary, and it
\* does so after at most ceil(log2(N_total)) halvings, N_total being the
\* number of transitions of the group in the window: d halvings are within
\* the bound when 2^(d-1) < N_total.
C12_BalancerStops ==
    /\ pc \notin {"crash", "recursing"}
    /\ \A i \in 1..Len(depth) : Pow2(depth[i] - 1) < SumSeq(nlines)

\* The grouping loop is over: wnset is what the run works with.
grouped == pc \in {"openout", "opengroup", "chunk", "closegroup", "finish",
                   "done", "crash", "recursing"}

\* The places (group, position in the group) of wnset.
places == UNION { { <<g, k>> : k \in 1..Len(wnset[g]) } : g \in 1..Len(wnset) }

\* The suffix of the file at a place of wnset.
suffAt(g, k) == files[wnset[g][k]].suff

\* C13: once the grouping loop is over, wnset is a partition of the file
\* indices (every file is at exactly one place), the files of a group have
\* one suffix, the suffix grows strictly from each group to the next, and
\* the groups are worked through in that order: chunks are processed and
\* files are opened by non-decreasing group, hence by non-decreasing suffix.
C13_GroupingPartition ==
    grouped =>
       /\ \A pl \in places : wnset[pl[1]][pl[2]] \in 1..Len(files)
       /\ \A f \in 1..Len(files) :
             Cardinality({ pl \in places : wnset[pl[1]][pl[2]] = f }) = 1
       /\ \A g \in 1..Len(wnset) : wnset[g] # << >>
       /\ \A pl \in places : suffAt(pl[1], pl[2]) = suffAt(pl[1], 1)
       /\ \A g \in 1..Len(wnset) : \A h \in 1..Len(wnset) :
             g < h => suffAt(g, 1) < suffAt(h, 1)
       /\ \A i \in 1..Len(chunklog) : \A j \in 1..Len(chunklog) :
             i < j => chunklog[i].grp <= chunklog[j].grp
       /\ \A i \in 1..Len(events) : \A j \in 1..Len(events) :
             (i < j /\ events[i].op = "open" /\ events[j].op = "open")
                => /\ events[i].grp <= events[j].grp
                   /\ files[events[i].file].suff <= files[events[j].file].suff

\* A run is done on files given out of suffix order, grouped into two or
\* more sets of which one has several files, with chunks of two sets
\* processed.
C13_Witness ==
    /\ pc = "done"
    /\ Len(wnset) >= 2
    /\ \E g \in 1..Len(wnset) : Len(wnset[g]) >= 2
    /\ \E i \in 1..Len(files) : \E j \in 1..Len(files) :
          i < j /\ files[i].suff > files[j].suff
    /\ \E i \in 1..Len(chunklog) : \E j \in 1..Len(chunklog) :
          chunklog[i].grp # chunklog[j].grp

\* The places in the log of the events with operation op on file f.
eventsOf(op, f) ==
    { i \in 1..Len(events) : events[i].op = op /\ events[i].file = f }

\* Event i is an operation of chunk processing: a read of a source or a
\* write to the LBL file.
chunkEvent(i) == events[i].op \in {"read", "write"}

\* Every source is opened at most once and closed at most once, its close
\* after its open; every seek or read on it lies between the two.
sourcesOpenWhenRead ==
    /\ \A f \in 1..Len(files) :
          /\ Cardinality(eventsOf("open", f)) <= 1
          /\ Cardinality(eventsOf("close", f)) <= 1
          /\ \A c \in eventsOf("close", f) : \E o \in eventsOf("open", f) : o < c
    /\ \A i \in 1..Len(events) :
          events[i].op \in {"seek", "read"} =>
             /\ \E o \in eventsOf("open", events[i].file) : o < i
             /\ \A c \in eventsOf("close", events[i].file) : i < c

\* A source is opened for the group that holds it, before any chunk of that
\* group is processed and after every source of the groups before it is
\* closed; it is closed after every chunk operation of its group.
sourcesLiveWithGroup ==
    \A i \in 1..Len(events) :
       /\ events[i].op = "open" =>
             /\ events[i].grp \in 1..Len(wnset)
             /\ \E k \in 1..Len(wnset[events[i].grp]) :
                   wnset[events[i].grp][k] = events[i].file
             /\ \A j \in 1..Len(events) :
                   (chunkEvent(j) /\ events[j].grp = events[i].grp) => i < j
             /\ \A j \in 1..Len(events) :
                   (events[j].op = "open" /\ events[j].grp < events[i].grp)
                      => \E c \in eventsOf("close", events[j].file) : c < i
       /\ events[i].op = "close" =>
             \A j \in 1..Len(events) :
                (chunkEvent(j) /\ events[j].grp = events[i].grp) => j < i

\* The LBL file is opened at most once, before any source; it is written in
\* chunk order; it is closed at most once, after every write and every
\* close of a source; the continuum file is written after that.
lblStreamOrdered ==
    /\ Cardinality(eventsOf("lblopen", 0)) <= 1
    /\ Cardinality(eventsOf("lblclose", 0)) <= 1
    /\ \A i \in 1..Len(events) :
          /\ events[i].op \in {"open", "write", "lblclose"} =>
                \E o \in eventsOf("lblopen", 0) : o < i
          /\ events[i].op \in {"open", "seek", "read", "write", "close"} =>
                \A c \in eventsOf("lblclose", 0) : i < c
          /\ events[i].op = "contwrite" =>
                \E c \in eventsOf("lblclose", 0) : c < i
    /\ \A i \in 1..Len(events) : \A j \in 1..Len(events) :
          (i < j /\ events[i].op = "write" /\ events[j].op = "write") =>
             \/ events[i].grp < events[j].grp
             \/ events[i].grp = events[j].grp /\ events[i].n < events[j].n

\* In a run that is done every input file was opened and closed, and the
\* LBL file was opened and closed and the continuum file written.
allClosedWhenDone ==
    pc = "done" =>
       /\ \A f \in 1..Len(files) :
             /\ Cardinality(eventsOf("open", f)) = 1
             /\ Cardinality(eventsOf("close", f)) = 1
       /\ Cardinality(eventsOf("lblopen", 0)) = 1
       /\ Cardinality(eventsOf("lblclose", 0)) = 1
       /\ Cardinality(eventsOf("contwrite", 0)) = 1

=============================================================================
